---- MODULE Spec2Model ----
(***************************************************************************)
(* Model of dicomweb_client/api.py: the multipart/related codec            *)
(* (_encode_multipart_message, _decode_multipart_message) and the DICOM    *)
(* JSON conversion (_create_dataelement, load_json_dataset).               *)
(*                                                                         *)
(* Byte strings and text are TLA+ strings; a character is a string of      *)
(* length one.  The bytes of the model are printable ASCII, SP, TAB, CR    *)
(* and LF.                                                                 *)
(***************************************************************************)
EXTENDS Integers, Sequences, FiniteSets, TLC

VARIABLES pc, call, ret

vars == <<pc, call, ret>>

(***************************************************************************)
(* Python string primitives used by the code.                              *)
(***************************************************************************)

\* a call by value: F applied to the value of v.  TLC evaluates the argument
\* of an operator wherever the operator uses it; a bound variable holds a value
Call(F(_), v) == CHOOSE r \in {F(x) : x \in {v}} : TRUE

\* s[i] for a 1-based index i
Char(s, i) == SubSeq(s, i, i)

\* s[a:] with a 0-based, a >= 0
From(s, a) == SubSeq(s, a + 1, Len(s))

\* s[a:b] with 0-based a >= 0 and b >= 0
Slice(s, a, b) == SubSeq(s, a + 1, IF b > Len(s) THEN Len(s) ELSE b)

\* s[a:-1] with a 0-based, a >= 0
SliceToLast(s, a) == SubSeq(s, a + 1, Len(s) - 1)

StartsWith(s, p) == Len(p) <= Len(s) /\ SubSeq(s, 1, Len(p)) = p

\* str.find(c): 0-based index of the first occurrence of the substring c, or -1
Find(s, c) ==
    LET first(hits) ==
            IF hits = {} THEN -1
            ELSE (CHOOSE i \in hits : \A j \in hits : i <= j) - 1
        find(t) ==
            Call(first, {i \in 1..(Len(t) - Len(c) + 1) :
                            SubSeq(t, i, i + Len(c) - 1) = c})
    IN  Call(find, s)

\* str.split(c) for a one-character separator c
RECURSIVE Split(_, _)
Split(s, c) ==
    LET i == Find(s, c)
    IN  IF i = -1 THEN <<s>>
        ELSE <<Slice(s, 0, i)>> \o Split(From(s, i + 1), c)

\* ''.join(seq)
RECURSIVE Join(_)
Join(ss) == IF ss = <<>> THEN "" ELSE Head(ss) \o Join(Tail(ss))

(***************************************************************************)
(* Outcome of a call: a returned value or a raised exception.              *)
(***************************************************************************)
Ok(v) == [status |-> "ok", value |-> v]

Raise(e) == [status |-> "raise", exc |-> e]

(***************************************************************************)
(* DICOMWebClient._encode_multipart_message                                *)
(***************************************************************************)

\* one pass of the loop body: the opening delimiter, the part header and the payload
EncodePartBroken(boundary, content_type, payload) ==
    "\r\n--" \o boundary \o "\r\nContent-Type: " \o content_type \o "\r\n" \o payload

EncodePart(boundary, content_type, payload) ==
    "\r\n--" \o boundary \o "\r\nContent-Type: " \o content_type \o "\r\n\r\n" \o payload

\* for payload in data: body += ...
RECURSIVE EncodeLoop(_, _, _)
EncodeLoop(data, boundary, content_type) ==
    IF data = <<>> THEN ""
    ELSE EncodePart(boundary, content_type, Head(data))
            \o EncodeLoop(Tail(data), boundary, content_type)

\* boundary[boundary.find('=')+2:-1] and content_type[content_type.find('=')+2:-1]
ExtractParameter(segment) == SliceToLast(segment, Find(segment, "=") + 2)

encode_multipart_message(data, content_type) ==
    LET segments == Split(content_type, ";")
    IN  IF Len(segments) # 3 THEN Raise("ValueError")
        ELSE LET boundary == ExtractParameter(segments[3])
                 inner    == ExtractParameter(segments[2])
             IN  Ok(EncodeLoop(data, boundary, inner) \o "\r\n--" \o boundary \o "--")

(***************************************************************************)
(* email.message_from_bytes, as _decode_multipart_message uses it: the     *)
(* feed parser of the standard library, line by line.  No input of the     *)
(* model declares a Content-Transfer-Encoding, a parameter of RFC 2231 (a  *)
(* name that ends in * or *N), a header folded over lines or a "From "     *)
(* line, so those branches are left out.                                   *)
(***************************************************************************)
EOLChars == {"\r", "\n"}

Blanks == {" ", "\t"}

Whitespace == {" ", "\t", "\r", "\n"}

\* None, and a bytes object
PyNone == [k |-> "None"]

PyBytes(s) == [k |-> "bytes", s |-> s]

\* the EOF matcher of a message/delivery-status, NLCRE.match, on the stack of
\* EOF matchers.  Every other matcher is the boundary of a multipart, and no
\* boundary ends with a line feed (get_boundary strips it)
NLCRE == "\n"

\* the characters that cannot occur in a header field name
NonFtext == {" ", "\t", "\r", "\n", ":"}

UpperCase == "ABCDEFGHIJKLMNOPQRSTUVWXYZ"

LowerCase == "abcdefghijklmnopqrstuvwxyz"

LowerChar(c) ==
    IF \E i \in 1..Len(UpperCase) : Char(UpperCase, i) = c
    THEN Char(LowerCase, CHOOSE i \in 1..Len(UpperCase) : Char(UpperCase, i) = c)
    ELSE c

\* str.lower()
RECURSIVE Lower(_)
Lower(s) == IF s = "" THEN "" ELSE LowerChar(Char(s, 1)) \o Lower(From(s, 1))

\* str.lstrip(chars), str.rstrip(chars), str.strip()
RECURSIVE LStrip(_, _)
LStrip(s, chars) ==
    IF s # "" /\ Char(s, 1) \in chars THEN LStrip(From(s, 1), chars) ELSE s

RECURSIVE RStrip(_, _)
RStrip(s, chars) ==
    IF s # "" /\ Char(s, Len(s)) \in chars
    THEN RStrip(SubSeq(s, 1, Len(s) - 1), chars) ELSE s

Strip(s) == RStrip(LStrip(s, Whitespace), Whitespace)

\* the length of the first line of s, its terminator (\r\n, \r or \n) included
FirstLineLen(s) ==
    LET ends == {i \in 1..Len(s) : Char(s, i) \in EOLChars}
    IN  IF ends = {} THEN Len(s)
        ELSE LET i == CHOOSE k \in ends : \A j \in ends : k <= j
             IN  IF Char(s, i) = "\r" /\ i < Len(s) /\ Char(s, i + 1) = "\n"
                 THEN i + 1 ELSE i

\* BufferedSubFile.push: the text cracked into lines, line separators kept
RECURSIVE SplitLines(_)
SplitLines(s) ==
    IF s = "" THEN <<>>
    ELSE LET n == FirstLineLen(s)
         IN  <<SubSeq(s, 1, n)>> \o SplitLines(From(s, n))

\* NLCRE_eol: one trailing line separator removed
StripEol(s) ==
    IF Len(s) >= 2 /\ SubSeq(s, Len(s) - 1, Len(s)) = "\r\n"
    THEN SubSeq(s, 1, Len(s) - 2)
    ELSE IF Len(s) >= 1 /\ Char(s, Len(s)) \in EOLChars
         THEN SubSeq(s, 1, Len(s) - 1)
         ELSE s

\* the tail of a boundary line: [ \t]*(\r\n|\r|\n)?$
BlankTail(r) == LStrip(r, Blanks) \in {"", "\r\n", "\r", "\n"}

\* boundaryre.match(line) with group 'end' set: the closing delimiter
IsCloseBoundary(line, boundary) ==
    LET sep == "--" \o boundary \o "--"
    IN  StartsWith(line, sep) /\ BlankTail(From(line, Len(sep)))

\* boundaryre.match(line): an opening or a closing delimiter
IsBoundary(line, boundary) ==
    LET sep == "--" \o boundary
    IN  \/ StartsWith(line, sep) /\ BlankTail(From(line, Len(sep)))
        \/ IsCloseBoundary(line, boundary)

\* headerRE.match(line): a field name followed by a colon, or a continuation
IsHeaderLine(line) ==
    \/ line # "" /\ Char(line, 1) \in Blanks
    \/ LET i == Find(line, ":")
       IN  i >= 0 /\ \A j \in 1..i : Char(line, j) \notin NonFtext

\* BufferedSubFile.readline returns '': the input is exhausted, or the line
\* is a delimiter of an enclosing multipart (the stack of EOF matchers)
AtEof(lines, stack) ==
    \/ lines = <<>>
    \/ \E i \in 1..Len(stack) :
          IF stack[i] = NLCRE THEN Char(Head(lines), 1) \in EOLChars
          ELSE IsBoundary(Head(lines), stack[i])

\* the number of header lines at the front of lines
RECURSIVE HeaderCount(_, _)
HeaderCount(lines, stack) ==
    IF AtEof(lines, stack) \/ ~IsHeaderLine(Head(lines)) THEN 0
    ELSE 1 + HeaderCount(Tail(lines), stack)

\* the number of lines up to the (false) end of file
RECURSIVE BodyCount(_, _)
BodyCount(lines, stack) ==
    IF AtEof(lines, stack) THEN 0 ELSE 1 + BodyCount(Tail(lines), stack)

\* FeedParser._parse_headers: <<name, raw value>> per field, continuation
\* lines joined to the field they continue.  lastheader is the name of the
\* field that is open, "" when none is: a continuation line is dropped then,
\* and a line with the colon in column 0 closes the open field
RECURSIVE ParseHeaders(_, _, _)
ParseHeaders(lines, acc, lastheader) ==
    IF lines = <<>> THEN acc
    ELSE LET line == Head(lines)
             i    == Find(line, ":")
         IN  IF Char(line, 1) \in Blanks
             THEN IF lastheader = "" THEN ParseHeaders(Tail(lines), acc, lastheader)
                  ELSE ParseHeaders(Tail(lines),
                          [acc EXCEPT ![Len(acc)] = <<@[1], @[2] \o line>>],
                          lastheader)
             ELSE IF i = 0 THEN ParseHeaders(Tail(lines), acc, "")
             ELSE ParseHeaders(Tail(lines),
                     Append(acc, <<Slice(line, 0, i),
                                   LStrip(From(line, i + 1), Blanks)>>),
                     Slice(line, 0, i))

\* Message.get(name): the first field of that name, case-insensitively
GetHeader(headers, name) ==
    LET hits == {i \in 1..Len(headers) : Lower(headers[i][1]) = name}
    IN  IF hits = {} THEN [found |-> FALSE, value |-> ""]
        ELSE [found |-> TRUE,
              value |-> RStrip(headers[CHOOSE i \in hits : \A j \in hits : i <= j][2],
                               EOLChars)]

\* the number of occurrences of the character c in s
CountChar(s, c) == Cardinality({i \in 1..Len(s) : Char(s, i) = c})

\* Message.get_content_type: the default type of the message when it has no
\* Content-Type field, text/plain when the field has not exactly one slash
GetContentType(headers, default_type) ==
    LET h     == GetHeader(headers, "content-type")
        ctype == Lower(Strip(Split(h.value, ";")[1]))
    IN  IF ~h.found THEN default_type
        ELSE IF CountChar(ctype, "/") # 1 THEN "text/plain" ELSE ctype

\* Message.get_content_maintype
GetContentMaintype(headers, default_type) ==
    Split(GetContentType(headers, default_type), "/")[1]

\* s.find(sub, start), 0-based, -1 when sub is not found
FindFrom(s, sub, start) ==
    LET i == Find(From(s, start), sub) IN IF i < 0 THEN -1 ELSE start + i

\* s.replace(old, new)
RECURSIVE Replace(_, _, _)
Replace(s, old, new) ==
    LET replace(t) ==
            LET i == Find(t, old)
            IN  IF i < 0 THEN t
                ELSE Slice(t, 0, i) \o new \o Replace(From(t, i + Len(old)), old, new)
    IN  Call(replace, s)

\* s.count(sub)
RECURSIVE Count(_, _)
Count(s, sub) ==
    LET count(t) ==
            LET i == Find(t, sub)
            IN  IF i < 0 THEN 0 ELSE 1 + Count(From(t, i + Len(sub)), sub)
    IN  Call(count, s)

\* email.utils.quote
Quote(s) == Replace(Replace(s, "\\", "\\\\"), "\"", "\\\"")

\* email.utils.unquote
Unquote(s) ==
    LET unquote(t) ==
            IF Len(t) > 1 /\ Char(t, 1) = "\"" /\ Char(t, Len(t)) = "\""
            THEN Replace(Replace(SubSeq(t, 2, Len(t) - 1), "\\\\", "\\"), "\\\"", "\"")
            ELSE IF Len(t) > 1 /\ Char(t, 1) = "<" /\ Char(t, Len(t)) = ">"
            THEN SubSeq(t, 2, Len(t) - 1)
            ELSE t
    IN  Call(unquote, s)

\* _parseparam, the inner loop: the next ";" that is not inside double quotes
RECURSIVE ParamEnd(_, _)
ParamEnd(s, end) ==
    LET param_end(e) ==
            IF e > 0 /\ (Count(Slice(s, 0, e), "\"")
                            - Count(Slice(s, 0, e), "\\\"")) % 2 = 1
            THEN ParamEnd(s, FindFrom(s, ";", e + 1))
            ELSE e
    IN  Call(param_end, end)

\* _parseparam, the outer loop, on a string that begins with ";"
RECURSIVE ParseParamLoop(_)
ParseParamLoop(s) ==
    LET \* f = s[:end], and the name in lower case when f has a "="
        param(f) ==
            LET i == Find(f, "=")
            IN  Strip(IF i >= 0
                      THEN Lower(Strip(Slice(f, 0, i))) \o "=" \o Strip(From(f, i + 1))
                      ELSE f)
        \* s = s[1:], and end is the next ";" outside quotes, or len(s)
        next(t) ==
            LET cut(e) ==
                    LET end == IF e < 0 THEN Len(t) ELSE e
                    IN  <<Call(param, Slice(t, 0, end))>> \o ParseParamLoop(From(t, end))
            IN  Call(cut, ParamEnd(t, Find(t, ";")))
        loop(u) == IF Slice(u, 0, 1) # ";" THEN <<>> ELSE Call(next, From(u, 1))
    IN  Call(loop, s)

\* email.message._parseparam
ParseParam(value) == ParseParamLoop(";" \o value)

\* the name and the value of one Content-Type parameter: name=value, or a
\* bare name with the empty value
ParamName(p) ==
    LET e == Find(p, "=") IN Lower(Strip(IF e >= 0 THEN Slice(p, 0, e) ELSE p))

ParamValue(p) ==
    LET e == Find(p, "=") IN IF e >= 0 THEN Strip(From(p, e + 1)) ELSE ""

\* email.utils.decode_params: the first pair is kept, the value of any other
\* is unquoted and quoted again
DecodedValue(params, i) ==
    IF i = 1 THEN ParamValue(params[i])
    ELSE "\"" \o Quote(Unquote(ParamValue(params[i]))) \o "\""

\* Message.get_boundary: the first boundary parameter of Content-Type,
\* unquoted by get_param and by collapse_rfc2231_value, less trailing blanks
GetBoundary(headers) ==
    LET rstrip(v) == RStrip(v, Whitespace)
        boundary(params) ==
            LET hits == {i \in 1..Len(params) : ParamName(params[i]) = "boundary"}
            IN  IF hits = {} THEN [found |-> FALSE, value |-> ""]
                ELSE LET i == CHOOSE k \in hits : \A j \in hits : k <= j
                     IN  [found |-> TRUE,
                          value |-> Call(rstrip,
                                         Unquote(Unquote(DecodedValue(params, i))))]
        get(h) ==
            IF ~h.found THEN [found |-> FALSE, value |-> ""]
            ELSE Call(boundary, ParseParam(h.value))
    IN  Call(get, GetHeader(headers, "content-type"))

\* a message whose payload is a string, and one whose payload is a list of parts
Leaf(headers, payload, default_type) ==
    [headers |-> headers, multipart |-> FALSE, payload |-> payload,
     parts |-> <<>>, default_type |-> default_type]

Container(headers, parts, default_type) ==
    [headers |-> headers, multipart |-> TRUE, payload |-> "",
     parts |-> parts, default_type |-> default_type]

\* FeedParser._new_message: the default type of a message that is created
\* while the message of type ctype is the current one
DefaultType(ctype) ==
    IF ctype = "multipart/digest" THEN "message/rfc822" ELSE "text/plain"

\* the newline before a delimiter belongs to the delimiter, not to the part
\* that ends there.  It is taken from the message created last (_last): the
\* part itself, or the last message nested in a part of type message/*, and
\* only when that message declares no multipart type and has a string payload
RECURSIVE CleanPart(_)
CleanPart(msg) ==
    IF GetContentMaintype(msg.headers, msg.default_type) = "message"
    THEN [msg EXCEPT !.parts[Len(msg.parts)] = CleanPart(@)]
    ELSE IF GetContentMaintype(msg.headers, msg.default_type) # "multipart"
            /\ ~msg.multipart
    THEN [msg EXCEPT !.payload = StripEol(@)]
    ELSE msg

\* delimiter lines that directly follow a delimiter are consumed
RECURSIVE SkipBoundaries(_, _, _)
SkipBoundaries(lines, stack, boundary) ==
    IF AtEof(lines, stack) \/ ~IsBoundary(Head(lines), boundary) THEN lines
    ELSE SkipBoundaries(Tail(lines), stack, boundary)

\* readline once: a line is consumed unless the input is at its end of file
ReadLine(lines, stack) == IF AtEof(lines, stack) THEN lines ELSE Tail(lines)

\* FeedParser._parsegen: one message read from lines; rest is what it leaves.
\* default_type is the default type that _new_message gives the message
RECURSIVE ParseGen(_, _, _), ParseMultipart(_, _, _, _, _, _, _),
          ParseDeliveryStatus(_, _, _)
ParseGen(lines, stack, default_type) ==
    LET h       == HeaderCount(lines, stack)
        headers == ParseHeaders(SubSeq(lines, 1, h), <<>>, "")
        afterH  == SubSeq(lines, h + 1, Len(lines))
        \* the blank separator line is thrown away, any other line is body
        body    == IF ~AtEof(afterH, stack) /\ Char(Head(afterH), 1) \in EOLChars
                   THEN Tail(afterH) ELSE afterH
        n       == BodyCount(body, stack)
        container(r) ==
            [msg  |-> Container(headers, r.parts, default_type), rest |-> r.rest]
        nested(sub) ==
            [msg  |-> Container(headers, <<sub.msg>>, default_type),
             rest |-> sub.rest]
        multipart(r) ==
            [msg  |-> IF r.capturing
                      \* StartBoundaryNotFoundDefect: the preamble is the payload
                      THEN Leaf(headers, Join(r.preamble), default_type)
                      ELSE Container(headers, r.parts, default_type),
             \* the epilogue, if any, runs to the end of file
             rest |-> SubSeq(r.rest, BodyCount(r.rest, stack) + 1, Len(r.rest))]
        \* b is the boundary of the message, ctype its content type
        parse(b) ==
            LET dispatch(ctype) ==
                    IF ctype = "message/delivery-status"
                    \* blocks of headers, each a nested message
                    THEN Call(container, ParseDeliveryStatus(body, stack, <<>>))
                    ELSE IF Split(ctype, "/")[1] = "message"
                    \* what follows is another message
                    THEN Call(nested, ParseGen(body, stack, DefaultType(ctype)))
                    ELSE IF Split(ctype, "/")[1] = "multipart" /\ b.found
                    THEN Call(multipart,
                              ParseMultipart(body, stack, b.value,
                                             DefaultType(ctype), TRUE, <<>>, <<>>))
                    \* any other type, or NoBoundaryInMultipartDefect: the
                    \* rest is payload
                    ELSE [msg  |-> Leaf(headers, Join(SubSeq(body, 1, n)),
                                        default_type),
                          rest |-> SubSeq(body, n + 1, Len(body))]
            IN  Call(dispatch, GetContentType(headers, default_type))
    IN  Call(parse, GetBoundary(headers))

\* the loop over the blocks of a message/delivery-status: a block is read up
\* to a blank line, the blank line is consumed, and the loop ends when the
\* line after it is the end of file
ParseDeliveryStatus(lines, stack, parts) ==
    LET step(sub) ==
            LET rest == ReadLine(sub.rest, stack)
            IN  IF AtEof(rest, stack)
                THEN [parts |-> Append(parts, sub.msg), rest |-> rest]
                ELSE ParseDeliveryStatus(rest, stack, Append(parts, sub.msg))
    IN  Call(step, ParseGen(lines, Append(stack, NLCRE), "text/plain"))

\* the loop over the body of a multipart; part_type is the default type of
\* its parts
ParseMultipart(lines, stack, boundary, part_type, capturing, preamble, parts) ==
    IF AtEof(lines, stack)
    THEN [capturing |-> capturing, preamble |-> preamble, parts |-> parts,
          rest |-> lines]
    ELSE IF IsCloseBoundary(Head(lines), boundary)
    THEN [capturing |-> capturing, preamble |-> preamble, parts |-> parts,
          rest |-> Tail(lines)]
    ELSE IF IsBoundary(Head(lines), boundary)
    THEN LET next(sub) ==
                 ParseMultipart(sub.rest, stack, boundary, part_type, FALSE,
                                preamble, Append(parts, CleanPart(sub.msg)))
         IN  Call(next, ParseGen(SkipBoundaries(Tail(lines), stack, boundary),
                                 Append(stack, boundary), part_type))
    ELSE ParseMultipart(Tail(lines), stack, boundary, part_type, capturing,
                        Append(preamble, Head(lines)), parts)

message_from_bytes(text) == ParseGen(SplitLines(text), <<>>, "text/plain").msg

\* Message.walk: the message, then its parts, depth first
RECURSIVE Walk(_), WalkAll(_)
Walk(msg) == <<msg>> \o (IF msg.multipart THEN WalkAll(msg.parts) ELSE <<>>)

WalkAll(msgs) ==
    IF msgs = <<>> THEN <<>> ELSE Walk(Head(msgs)) \o WalkAll(Tail(msgs))

(***************************************************************************)
(* DICOMWebClient._decode_multipart_message                                *)
(***************************************************************************)

\* header += '{}: {}\n'.format(key, value), over the items of headers
RECURSIVE HeaderText(_)
HeaderText(headers) ==
    IF headers = <<>> THEN ""
    ELSE Head(headers)[1] \o ": " \o Head(headers)[2] \o "\n"
            \o HeaderText(Tail(headers))

\* Message.get_payload(decode=True): None when the payload is a list of parts
GetPayload(part) == IF part.multipart THEN PyNone ELSE PyBytes(part.payload)

\* the loop with the test on the declared type inverted: every part that
\* is not multipart-structured is passed over
RECURSIVE ElementsSkipLeaves(_)
ElementsSkipLeaves(parts) ==
    IF parts = <<>> THEN <<>>
    ELSE LET part == Head(parts)
         IN  IF GetContentMaintype(part.headers, part.default_type) = "multipart"
                /\ ~part.multipart
             THEN ElementsSkipLeaves(Tail(parts))
             ELSE <<GetPayload(part)>> \o ElementsSkipLeaves(Tail(parts))

\* the loop over message.walk(): a part that declares a multipart type and
\* is multipart-structured is passed over, any other part gives its payload
RECURSIVE Elements(_)
Elements(parts) ==
    IF parts = <<>> THEN <<>>
    ELSE LET part == Head(parts)
         IN  IF GetContentMaintype(part.headers, part.default_type) = "multipart"
                /\ part.multipart
             THEN Elements(Tail(parts))
             ELSE <<GetPayload(part)>> \o Elements(Tail(parts))

decode_multipart_message(body, headers) ==
    Ok(Elements(Walk(message_from_bytes(HeaderText(headers) \o body))))

(***************************************************************************)
(* The codec at work: a list of payloads is encoded for a POST             *)
(* (_http_post_multipart_application_dicom) and the body is decoded again  *)
(* under the same content type; the body and headers of a GET response     *)
(* are decoded (_http_get_multipart_application_octet_stream).             *)
(***************************************************************************)

\* the longest list of payloads
MaxParts == 2

\* payloads: empty, plain, ending and starting with a line break, a line
\* that is a delimiter of the boundary "boundary", and an embedded closing
\* delimiter
Payloads ==
    {"", "x", "x\r\n", "\nyz", "--boundary", "a\r\n--boundary--\r\nb"}

RECURSIVE ListsOf(_, _)
ListsOf(S, n) ==
    IF n = 0 THEN {<<>>}
    ELSE ListsOf(S, n - 1) \cup {Append(l, x) : l \in ListsOf(S, n - 1), x \in S}

PartLists == ListsOf(Payloads, MaxParts)

\* multipart/related; type="T"; boundary="B"
MultipartRelated(T, B) ==
    "multipart/related; type=\"" \o T \o "\"; boundary=\"" \o B \o "\""

\* the content type _http_post_multipart_application_dicom passes
PostContentType == MultipartRelated("application/dicom", "boundary")

InnerTypes ==
    {"application/dicom", "application/octet-stream", "multipart/mixed",
     "message/rfc822"}

Boundaries == {"boundary", "B"}

WellFormedContentTypes == {MultipartRelated(T, B) : T \in InnerTypes, B \in Boundaries}

\* content types that lack a parameter, carry another one, or carry the
\* two in the other order
OtherContentTypes ==
    {"multipart/related",
     "multipart/related; type=\"application/dicom\"",
     "multipart/related; boundary=\"boundary\"",
     "multipart/related; type=\"application/dicom\"; charset=\"utf-8\"",
     "multipart/related; start=\"x\"; boundary=\"boundary\"",
     "multipart/related; boundary=\"boundary\"; type=\"application/dicom\"",
     "multipart/related; type=\"application/dicom\"; boundary=\"boundary\"; start=\"x\""}

ContentTypes == WellFormedContentTypes \cup OtherContentTypes

\* what a server sends back for the parts data under the boundary B
ResponseKinds ==
    {"complete", "unterminated", "cut", "plain", "quirkpart", "nested", "digest"}

InnerBoundary == "inner"

\* the parts of a multipart/digest, each without header fields of its own
RECURSIVE DigestLoop(_, _)
DigestLoop(data, boundary) ==
    IF data = <<>> THEN ""
    ELSE "\r\n--" \o boundary \o "\r\n\r\n" \o Head(data)
            \o DigestLoop(Tail(data), boundary)

Respond(kind, data, T, B) ==
    LET whole == EncodeLoop(data, B, T) \o "\r\n--" \o B \o "--"
    IN  CASE kind = "complete"     -> whole
          \* the closing delimiter is missing
          [] kind = "unterminated" -> EncodeLoop(data, B, T)
          \* the closing delimiter lost its final "--"
          [] kind = "cut"          -> EncodeLoop(data, B, T) \o "\r\n--" \o B
          \* a normal message body in place of a multipart one
          [] kind = "plain"        -> Head(data)
          \* a part that declares a multipart type and holds a plain body
          [] kind = "quirkpart"    ->
                EncodePart(B, MultipartRelated(T, InnerBoundary), Head(data))
                    \o EncodeLoop(Tail(data), B, T) \o "\r\n--" \o B \o "--"
          \* a part that is a multipart of its own, holding the first payload
          [] kind = "nested"       ->
                EncodePart(B, MultipartRelated(T, InnerBoundary),
                           EncodeLoop(<<Head(data)>>, InnerBoundary, T)
                               \o "\r\n--" \o InnerBoundary \o "--")
                    \o EncodeLoop(Tail(data), B, T) \o "\r\n--" \o B \o "--"
          \* the parts of a multipart/digest
          [] kind = "digest"       -> DigestLoop(data, B) \o "\r\n--" \o B \o "--"

\* the Content-Type of a response: with its boundary parameter, or without;
\* multipart/digest for a digest, multipart/related for every other kind
ResponseContentType(kind, T, B, withBoundary) ==
    IF kind = "digest"
    THEN IF withBoundary THEN "multipart/digest; boundary=\"" \o B \o "\""
         ELSE "multipart/digest"
    ELSE IF withBoundary THEN MultipartRelated(T, B)
         ELSE "multipart/related; type=\"" \o T \o "\""

\* the items of resp.headers: the Content-Type alone, or among the other
\* fields of a response
ResponseHeaders(content_type, body, others) ==
    IF others
    THEN <<<<"Server", "dcm">>, <<"Content-Type", content_type>>,
           <<"Content-Length", ToString(Len(body))>>>>
    ELSE <<<<"Content-Type", content_type>>>>

\* the header forms of the responses: whether the Content-Type has its
\* boundary parameter, and whether other fields come with it
HeaderForms ==
    {[withBoundary |-> TRUE, others |-> FALSE],
     [withBoundary |-> FALSE, others |-> FALSE],
     [withBoundary |-> TRUE, others |-> TRUE]}

\* the URL of the GET of _http_get_multipart_application_octet_stream
FramesUrl == "http://h/studies/1.2/series/1.2/instances/1.2/frames/1"

OctetStreamAccept == "multipart/related; type=\"application/octet-stream\""

\* self._session.get(url=url, params=params, headers=headers)
Request(url, accept) == [method |-> "GET", url |-> url, accept |-> accept]

NoCall == [op |-> "none"]

NoReturn == [status |-> "none"]

Init == pc = "idle" /\ call = NoCall /\ ret = NoReturn

\* body = _encode_multipart_message(data, content_type)
Encode ==
    /\ pc = "idle"
    /\ \E data \in PartLists, content_type \in ContentTypes :
          /\ call' = [op |-> "encode", data |-> data, content_type |-> content_type]
          /\ ret' = encode_multipart_message(data, content_type)
    /\ pc' = "encoded"

\* _decode_multipart_message(body, {'Content-Type': content_type}) of the
\* body just encoded
DecodeEncoded ==
    /\ pc = "encoded"
    /\ ret.status = "ok"
    /\ call' = [op |-> "decode", data |-> call.data,
                content_type |-> call.content_type, body |-> ret.value]
    /\ ret' = decode_multipart_message(ret.value,
                                       <<<<"Content-Type", call.content_type>>>>)
    /\ pc' = "decoded"

\* _http_get_multipart_application_octet_stream(url) is called: _http_get
\* sends the GET
GetRequest ==
    /\ pc = "idle"
    /\ call' = [op |-> "receive", request |-> Request(FramesUrl, OctetStreamAccept)]
    /\ pc' = "get_sent"
    /\ UNCHANGED ret

\* the server answers and _http_get runs resp.raise_for_status(): HTTPError
\* for a status of 400 and above, the response otherwise.  A plain body
\* holds one payload
GetResponse ==
    /\ pc = "get_sent"
    /\ \/ \E status \in {404, 500} :
             /\ call' = [op |-> "receive", request |-> call.request,
                         status |-> status]
             /\ ret' = Raise("HTTPError")
             /\ pc' = "failed"
       \/ \E kind \in ResponseKinds, data \in PartLists \ {<<>>},
             T \in {"application/octet-stream"}, B \in {"boundary"},
             form \in HeaderForms :
             /\ kind = "plain" => Len(data) = 1
             /\ \E body \in {Respond(kind, data, T, B)} :
                   call' = [op |-> "receive", request |-> call.request,
                            status |-> 200, kind |-> kind, data |-> data,
                            inner |-> T, boundary |-> B,
                            withBoundary |-> form.withBoundary,
                            headers |-> ResponseHeaders(
                                           ResponseContentType(kind, T, B,
                                                               form.withBoundary),
                                           body, form.others),
                            body |-> body]
             /\ pc' = "responded"
             /\ UNCHANGED ret

\* return self._decode_multipart_message(resp.content, resp.headers)
DecodeResponse ==
    /\ pc = "responded"
    /\ ret' = decode_multipart_message(call.body, call.headers)
    /\ pc' = "received"
    /\ UNCHANGED call

NextCodec == Encode \/ DecodeEncoded \/ GetRequest \/ GetResponse \/ DecodeResponse

SpecCodec == Init /\ [][NextCodec]_vars

(***************************************************************************)
(* Properties of the codec.                                                *)
(***************************************************************************)

\* the payload has a line that is a delimiter of the boundary B
HasDelimiterLine(payload, B) ==
    \E i \in 1..Len(SplitLines(payload)) : IsBoundary(SplitLines(payload)[i], B)

DelimiterFree(data, B) == \A i \in 1..Len(data) : ~HasDelimiterLine(data[i], B)

OpenDelimiter(T, B) == "\r\n--" \o B \o "\r\nContent-Type: " \o T \o "\r\n\r\n"

CloseDelimiter(B) == "\r\n--" \o B \o "--"

\* the number of bytes of the first n payloads
RECURSIVE TotalLen(_, _)
TotalLen(data, n) == IF n = 0 THEN 0 ELSE Len(data[n]) + TotalLen(data, n - 1)

\* where part i begins in the encoded body (0-based)
PartOffset(data, i, T, B) == (i - 1) * Len(OpenDelimiter(T, B)) + TotalLen(data, i - 1)

\* the list of bytes objects of a list of payloads
Bytes(data) == [i \in 1..Len(data) |-> PyBytes(data[i])]

\* the content type carries the parameter of that name with that value
CarriesParameter(content_type, name, value) ==
    \E i \in 2..Len(Split(content_type, ";")) :
        Strip(Split(content_type, ";")[i]) = name \o "=\"" \o value \o "\""

\* the content type has no parameter of that name
LacksParameter(content_type, name) ==
    \A i \in 2..Len(Split(content_type, ";")) :
        ParamName(Split(content_type, ";")[i]) # name

\* C1 as stated: decoding the encoding of any non-empty list of payloads,
\* under any content type multipart/related; type="T"; boundary="B", gives
\* the list back.
C1_RoundTripAnyPayload ==
    (pc = "decoded" /\ call.data # <<>>
        /\ call.content_type \in WellFormedContentTypes)
    => ret = Ok(Bytes(call.data))

\* C1 amended: the round trip gives the list back when no payload has a
\* line that is a delimiter of the boundary and T is neither a multipart
\* type nor a message type.
C1_RoundTrip ==
    \A T \in InnerTypes, B \in Boundaries :
        (pc = "decoded" /\ call.data # <<>>
            /\ call.content_type = MultipartRelated(T, B)
            /\ Split(T, "/")[1] \notin {"multipart", "message"}
            /\ DelimiterFree(call.data, B))
        => ret = Ok(Bytes(call.data))

C1_Witness ==
    /\ pc = "decoded"
    /\ call.content_type = PostContentType
    /\ call.data = <<"x\r\n", "\nyz">>
    /\ ret = Ok(<<PyBytes("x\r\n"), PyBytes("\nyz")>>)

\* C2 as stated: for a content type with type T and boundary B, the encoded
\* body is, part by part and in input order, the opening delimiter with the
\* Content-Type T followed by the payload unchanged, and ends with the one
\* closing delimiter; nothing else is in it.
C2_EncodeFormat ==
    \A T \in InnerTypes, B \in Boundaries :
        (pc = "encoded"
            /\ CarriesParameter(call.content_type, "type", T)
            /\ CarriesParameter(call.content_type, "boundary", B))
        => /\ ret.status = "ok"
           /\ Len(ret.value) = PartOffset(call.data, Len(call.data) + 1, T, B)
                                  + Len(CloseDelimiter(B))
           /\ \A i \in 1..Len(call.data) :
                 LET at == PartOffset(call.data, i, T, B)
                     n  == Len(OpenDelimiter(T, B))
                 IN  /\ Slice(ret.value, at, at + n) = OpenDelimiter(T, B)
                     /\ Slice(ret.value, at + n, at + n + Len(call.data[i]))
                           = call.data[i]
           /\ From(ret.value, PartOffset(call.data, Len(call.data) + 1, T, B))
                 = CloseDelimiter(B)

\* C3: a content type that lacks the boundary parameter or the type
\* parameter makes the encoder fail; no body is returned.
C3_EncodeRejectsIncomplete ==
    (pc = "encoded"
        /\ (LacksParameter(call.content_type, "boundary")
               \/ LacksParameter(call.content_type, "type")))
    => ret.status = "raise"

\* C4 as stated: a body without its closing delimiter, or a Content-Type
\* without a boundary parameter, makes the decoder fail and return no list.
C4_DecodeRejectsMalformed ==
    (pc = "received"
        /\ (call.kind \in {"unterminated", "cut"} \/ ~call.withBoundary))
    => ret.status = "raise"

\* C5 as stated: a part that declares a multipart type and is not
\* multipart-structured contributes no element.
C5_QuirkPartSkipped ==
    (pc = "received" /\ call.withBoundary
        /\ DelimiterFree(call.data, call.boundary))
    => /\ call.kind = "plain" => ret.value = <<>>
       /\ call.kind = "quirkpart" => ret.value = Bytes(Tail(call.data))

\* C5 amended: of the parts of a message that holds no part of a message
\* type, one that declares a multipart type and is not multipart-structured
\* contributes one element, its body; one that declares a multipart type
\* and is multipart-structured contributes none; every other part
\* contributes its payload, in message order.
C5_LeafPayloads ==
    (pc = "received" /\ call.withBoundary
        /\ DelimiterFree(call.data, call.boundary))
    => /\ call.kind = "plain"
          => ret = Ok(<<PyBytes(IF Head(SplitLines(call.body) \o <<"">>)
                                     \in {"\r\n", "\r", "\n"}
                                THEN From(call.body, Len(Head(SplitLines(call.body))))
                                ELSE call.body)>>)
       /\ call.kind = "quirkpart"
          => ret = Ok(Bytes(<<Head(call.data) \o "\r\n">> \o Tail(call.data)))
       /\ call.kind \in {"nested", "complete"} => ret = Ok(Bytes(call.data))

C5_Witness ==
    /\ pc = "received"
    /\ call.kind = "quirkpart"
    /\ call.withBoundary
    /\ call.data = <<"x", "\nyz">>
    /\ ret = Ok(<<PyBytes("x\r\n"), PyBytes("\nyz")>>)

(***************************************************************************)
(* DICOM JSON: the Python values json.loads produces, and the pydicom      *)
(* objects built from them.                                                *)
(***************************************************************************)

PyInt(n) == [k |-> "int", n |-> n]

PyStr(s) == [k |-> "str", s |-> s]

PyList(items) == [k |-> "list", items |-> items]

\* a dict: its items, <<key, value>>, in insertion order
PyDict(pairs) == [k |-> "dict", pairs |-> pairs]

\* pydicom.dataelem.DataElement(tag=tag, value=value, VR=VR): the element
\* holds the tag, the VR and the value it is given
DataElement(tag, value, VR) ==
    [k |-> "DataElement", tag |-> tag, VR |-> VR, value |-> value]

\* pydicom.dataset.Dataset: the elements by tag
Dataset(elems) == [k |-> "Dataset", elems |-> elems]

init_dataset == Dataset(<<>>)

\* an add that leaves the data set as it was
DatasetAddIgnored(ds, e) == ds

\* Dataset.add(e): self[e.tag] = e
DatasetAdd(ds, e) == Dataset((e.tag :> e) @@ ds.elems)

\* len(v)
PyLen(v) ==
    CASE v.k = "str"  -> Ok(Len(v.s))
      [] v.k = "list" -> Ok(Len(v.items))
      [] v.k = "dict" -> Ok(Len(v.pairs))
      [] v.k \in {"None", "int"} -> Raise("TypeError")

\* sub in s, for strings
Contains(s, sub) ==
    \E i \in 1..(Len(s) - Len(sub) + 1) : SubSeq(s, i, i + Len(sub) - 1) = sub

HasKey(d, key) == \E i \in 1..Len(d.pairs) : d.pairs[i][1] = key

\* key in v
PyIn(key, v) ==
    CASE v.k = "dict" -> Ok(HasKey(v, key))
      [] v.k = "str"  -> Ok(Contains(v.s, key))
      [] v.k = "list" -> Ok(\E i \in 1..Len(v.items) : v.items[i] = PyStr(key))
      [] v.k \in {"None", "int"} -> Raise("TypeError")

\* v[key], for a string key
PyGet(v, key) ==
    CASE v.k = "dict" ->
            IF HasKey(v, key)
            THEN Ok(v.pairs[CHOOSE i \in 1..Len(v.pairs) : v.pairs[i][1] = key][2])
            ELSE Raise("KeyError")
      [] v.k \in {"str", "list", "None", "int"} -> Raise("TypeError")

(***************************************************************************)
(* pydicom.datadict.dictionary_VM: the value multiplicity of the tags of   *)
(* the attribute dictionary that the model uses; any other tag is private  *)
(* or unregistered and raises KeyError.                                    *)
(***************************************************************************)
RegisteredTags ==
    {"00080008", "00080018", "00081070", "00081115", "00100010", "0020000E",
     "00280004", "00280010", "00280011", "7FE00010"}

dictionary_VM(tag) ==
    CASE tag = "00080008" -> "2-n"    \* ImageType, CS
      [] tag = "00080018" -> "1"      \* SOPInstanceUID, UI
      [] tag = "00081070" -> "1-n"    \* OperatorsName, PN
      [] tag = "00081115" -> "1"      \* ReferencedSeriesSequence, SQ
      [] tag = "00100010" -> "1"      \* PatientName, PN
      [] tag = "0020000E" -> "1"      \* SeriesInstanceUID, UI
      [] tag = "00280004" -> "1"      \* PhotometricInterpretation, CS
      [] tag = "00280010" -> "1"      \* Rows, US
      [] tag = "00280011" -> "1"      \* Columns, US
      [] tag = "7FE00010" -> "1"      \* PixelData, OB or OW

(***************************************************************************)
(* _create_dataelement                                                     *)
(***************************************************************************)
binary_representations == {"OB", "OD", "OF", "OL", "OW", "UN"}

supported_value_keys == {"Value", "BulkDataURI", "InlineBinary"}

\* the orders in which a loop may go over the set supported_value_keys: the
\* order of a set of str is that of the string hashing of the process
KeyOrders ==
    {order \in [1..3 -> supported_value_keys] :
        \A i, j \in 1..3 : order[i] = order[j] => i = j}

\* a fallback that takes every private tag as multi-valued
ValueMultiplicityArray(tag, value) ==
    IF tag \in RegisteredTags THEN Ok(dictionary_VM(tag)) ELSE Ok("1-n")

\* try: vm = dictionary_VM(tag) / except KeyError: vm = str(len(value))
ValueMultiplicity(tag, value) ==
    IF tag \in RegisteredTags THEN Ok(dictionary_VM(tag))
    ELSE IF PyLen(value).status = "raise" THEN PyLen(value)
    ELSE Ok(ToString(PyLen(value).value))

\* the PN branch: v['Alphabetic'] of a mapping, any other entry as it is
RECURSIVE PersonNames(_)
PersonNames(items) ==
    IF items = <<>> THEN Ok(<<>>)
    ELSE LET v    == Head(items)
             name == IF v.k = "dict" THEN PyGet(v, "Alphabetic") ELSE Ok(v)
             rest == PersonNames(Tail(items))
         IN  IF name.status = "raise" THEN name
             ELSE IF rest.status = "raise" THEN rest
             ELSE Ok(<<name.value>> \o rest.value)

\* str.split('\\') as a list of str
SplitBackslash(s) ==
    LET parts == Split(s, "\\")
    IN  PyList([i \in 1..Len(parts) |-> PyStr(parts[i])])

\* the last branch without the split of a single string
OtherValueNoSplit(vr, vm, value) ==
    IF vm = "1"
    THEN IF vr \in binary_representations THEN Ok(value)
         ELSE IF value.items # <<>> THEN Ok(value.items[1]) ELSE Ok(value)
    ELSE Ok(value)

\* the last branch without the unwrapping of a single value
OtherValueNoUnwrap(vr, vm, value) ==
    IF PyLen(value).status = "raise" THEN PyLen(value)
    ELSE IF PyLen(value).value = 1 /\ value.k = "list" /\ value.items[1].k = "str"
         THEN Ok(SplitBackslash(value.items[1].s))
         ELSE Ok(value)

\* the last branch: neither SQ nor PN
OtherValue(vr, vm, value) ==
    IF vm = "1"
    THEN IF vr \in binary_representations THEN Ok(value)
         \* if value: value[0], else value
         ELSE IF value.items # <<>> THEN Ok(value.items[1]) ELSE Ok(value)
    \* len(value) == 1 and isinstance(value[0], six.string_types)
    ELSE IF PyLen(value).status = "raise" THEN PyLen(value)
         ELSE IF PyLen(value).value # 1 THEN Ok(value)
         ELSE CASE value.k = "list" ->
                      IF value.items[1].k = "str"
                      THEN Ok(SplitBackslash(value.items[1].s))
                      ELSE Ok(value)
                \* value[0] of a string of length one is that string
                [] value.k = "str"  -> Ok(SplitBackslash(value.s))
                \* value[0] of a mapping with string keys
                [] value.k = "dict" -> Raise("KeyError")

\* for k in supported_value_keys: if k in val: val_key = k; break -- the
\* first key, in the order of the loop, that the nested attribute carries
ValueKey(val, order) ==
    LET present == {i \in 1..Len(order) :
                       PyIn(order[i], val).status = "ok" /\ PyIn(order[i], val).value}
    IN  IF present = {} THEN [found |-> FALSE, key |-> ""]
        ELSE [found |-> TRUE,
              key |-> order[CHOOSE i \in present : \A k \in present : i <= k]]

RECURSIVE create_dataelement(_, _, _, _), SequenceItem(_, _, _, _, _)

\* for key, val in value.items(): ... ds.add(e)
SequenceItem(tag, vr, pairs, ds, order) ==
    IF pairs = <<>> THEN Ok(ds)
    ELSE LET key   == Head(pairs)[1]
             val   == Head(pairs)[2]
             hasVr == PyIn("vr", val)
             vk    == ValueKey(val, order)
         IN  IF hasVr.status = "raise" THEN hasVr
             ELSE IF ~hasVr.value THEN Raise("DICOMJSONError")
             ELSE IF ~vk.found
             \* the element is made with the tag and the VR of the sequence
             THEN SequenceItem(tag, vr, Tail(pairs),
                               DatasetAdd(ds, DataElement(tag, PyNone, vr)), order)
             ELSE IF PyGet(val, "vr").status = "raise" THEN PyGet(val, "vr")
             ELSE LET e == create_dataelement(key, PyGet(val, "vr").value.s,
                                              PyGet(val, vk.key).value, order)
                  IN  IF e.status = "raise" THEN e
                      ELSE SequenceItem(tag, vr, Tail(pairs),
                                        DatasetAdd(ds, e.value), order)

create_dataelement(tag, vr, value, order) ==
    LET vm == ValueMultiplicity(tag, value)
    IN  IF vm.status = "raise" THEN vm
        ELSE IF vr \notin binary_representations /\ value.k # "list"
        THEN Raise("DICOMJSONError")
        ELSE IF vr = "SQ"
        THEN IF value.items = <<>> THEN Raise("IndexError")
             ELSE LET item == value.items[1]
                  IN  IF item.k = "None"
                      THEN Ok(DataElement(tag, PyList(<<init_dataset>>), vr))
                      \* value.items() of anything but a mapping
                      ELSE IF item.k # "dict" THEN Raise("AttributeError")
                      ELSE LET ds == SequenceItem(tag, vr, item.pairs, init_dataset, order)
                           IN  IF ds.status = "raise" THEN ds
                               ELSE Ok(DataElement(tag, PyList(<<ds.value>>), vr))
        ELSE IF vr = "PN"
        THEN LET names == PersonNames(value.items)
             IN  IF names.status = "raise" THEN names
                 ELSE Ok(DataElement(tag, PyList(names.value), vr))
        ELSE LET v == OtherValue(vr, vm.value, value)
             IN  IF v.status = "raise" THEN v
                 ELSE Ok(DataElement(tag, v.value, vr))

(***************************************************************************)
(* load_json_dataset                                                       *)
(***************************************************************************)

\* the loop body without the substitute for a missing Value
LoadAttributeNoSubstitute(ds, tag, mapping, order) ==
    LET vr    == PyGet(mapping, "vr")
        value == PyGet(mapping, "Value")
    IN  IF vr.status = "raise" THEN vr
        ELSE IF value.status = "raise" THEN value
        ELSE LET de == create_dataelement(tag, vr.value.s, value.value, order)
             IN  IF de.status = "raise" THEN de
                 ELSE Ok(DatasetAdd(ds, de.value))

\* one pass of the loop: the attribute (tag, mapping) converted and added
LoadAttribute(ds, tag, mapping, order) ==
    LET vr    == PyGet(mapping, "vr")
        \* try: mapping['Value'] / except KeyError: [None]
        value == IF HasKey(mapping, "Value") THEN PyGet(mapping, "Value").value
                 ELSE PyList(<<PyNone>>)
    IN  IF vr.status = "raise" THEN vr
        ELSE LET de == create_dataelement(tag, vr.value.s, value, order)
             IN  IF de.status = "raise" THEN de
                 ELSE Ok(DatasetAdd(ds, de.value))

(***************************************************************************)
(* The conversions at work: one call of _create_dataelement, and           *)
(* load_json_dataset attribute by attribute.                               *)
(***************************************************************************)

\* the deepest nesting of sequences in a value
MaxDepth == 2

\* the most attributes of a DICOM JSON object
MaxAttrs == 2

PrivateTags == {"00091001"}

Tags == RegisteredTags \cup PrivateTags

VRs == {"SQ", "PN", "UI", "CS", "LO", "OB", "UN"}

\* {"vr": vr, key: v}
Attribute(vr, key, v) == PyDict(<<<<"vr", PyStr(vr)>>, <<key, v>>>>)

UidAttribute == Attribute("UI", "Value", PyList(<<PyStr("1.2.3")>>))

\* an attribute without "vr"
NoVrAttribute == PyDict(<<<<"Value", PyList(<<PyStr("1.2.3")>>)>>>>)

\* an attribute with none of Value, BulkDataURI, InlineBinary
NoCarrierAttribute == PyDict(<<<<"vr", PyStr("LO")>>>>)

BulkAttribute == Attribute("OB", "BulkDataURI", PyStr("http://x"))

PersonName == PyDict(<<<<"Alphabetic", PyStr("Doe^John")>>>>)

\* a person name with the ideographic component only
IdeographicName == PyDict(<<<<"Ideographic", PyStr("Yamada^Tarou")>>>>)

\* the items of a sequence: mappings from nested tag to nested attribute
EmptyItem == PyDict(<<>>)

GoodItem == PyDict(<<<<"00080018", UidAttribute>>>>)

\* a well-formed attribute, then one without "vr"
NoVrItem == PyDict(<<<<"00080018", UidAttribute>>, <<"0020000E", NoVrAttribute>>>>)

LenientItem ==
    PyDict(<<<<"00080018", NoCarrierAttribute>>, <<"0020000E", UidAttribute>>>>)

BulkItem == PyDict(<<<<"7FE00010", BulkAttribute>>>>)

\* two well-formed attributes
PairItem ==
    PyDict(<<<<"00080018", UidAttribute>>,
             <<"00100010", Attribute("PN", "Value", PyList(<<PersonName>>))>>>>)

\* an attribute with two of the value keys, the second one no array
DoubleKeyItem ==
    PyDict(<<<<"00080018",
               PyDict(<<<<"vr", PyStr("UI")>>,
                        <<"Value", PyList(<<PyStr("1.2.3")>>)>>,
                        <<"BulkDataURI", PyStr("http://x")>>>>)>>>>)

BaseItems ==
    {EmptyItem, GoodItem, NoVrItem, LenientItem, BulkItem, PairItem, DoubleKeyItem}

\* the item wrapped in d sequences, each with the one item
RECURSIVE Nest(_, _)
Nest(item, d) ==
    IF d = 0 THEN item
    ELSE PyDict(<<<<"00081115",
                    Attribute("SQ", "Value", PyList(<<Nest(item, d - 1)>>))>>>>)

SequenceValues ==
    {PyList(<<Nest(item, d)>>) : item \in BaseItems, d \in 0..MaxDepth}
        \cup {PyList(<<EmptyItem, NoVrItem>>), PyList(<<GoodItem, LenientItem>>)}

\* the sequences of the objects that are loaded: the deepest ones, and one
\* of two items
TopSequenceValues ==
    {PyList(<<Nest(item, MaxDepth)>>) : item \in {GoodItem, NoVrItem, DoubleKeyItem}}
        \cup {PyList(<<EmptyItem, NoVrItem>>)}

\* what "Value" may hold: no array, and arrays
RawValues ==
    {PyNone, PyInt(1), PyStr("a"), PyStr("A\\B"), PyDict(<<>>), PersonName}
        \cup {PyList(<<>>), PyList(<<PyNone>>), PyList(<<PyInt(1)>>),
              PyList(<<PyStr("A")>>), PyList(<<PyStr("A\\B\\C")>>),
              PyList(<<PyStr("A"), PyStr("B")>>),
              PyList(<<PyStr("A\\B"), PyStr("C")>>),
              PyList(<<PersonName>>), PyList(<<PersonName, PyStr("Roe^Jane")>>),
              PyList(<<IdeographicName>>)}
        \cup SequenceValues

\* the attributes of a DICOM JSON object: <<tag, mapping>>
TopAttributes ==
    {<<"00100010", Attribute("PN", "Value", PyList(<<PersonName>>))>>,
     <<"00100010", NoVrAttribute>>,
     <<"00080018", UidAttribute>>,
     <<"00080018", PyDict(<<<<"vr", PyStr("UI")>>>>)>>,
     <<"00100010", PyDict(<<<<"vr", PyStr("PN")>>>>)>>,
     <<"00080008", PyDict(<<<<"vr", PyStr("CS")>>>>)>>,
     <<"00081115", PyDict(<<<<"vr", PyStr("SQ")>>>>)>>,
     <<"00091001", PyDict(<<<<"vr", PyStr("LO")>>>>)>>,
     <<"7FE00010", BulkAttribute>>,
     <<"00080008", Attribute("CS", "Value", PyList(<<PyStr("A\\B\\C")>>))>>,
     <<"00091001", Attribute("LO", "Value", PyList(<<PyStr("A")>>))>>,
     <<"00091001", Attribute("LO", "Value", PyNone)>>}
        \cup {<<"00081115", Attribute("SQ", "Value", v)>> : v \in TopSequenceValues}

\* the JSON objects: up to MaxAttrs attributes with different tags
RECURSIVE ObjectsOf(_)
ObjectsOf(n) ==
    IF n = 0 THEN {<<>>}
    ELSE ObjectsOf(n - 1)
            \cup {Append(o, a) : o \in ObjectsOf(n - 1),
                                 a \in TopAttributes}

JsonObjects ==
    {PyDict(o) : o \in {p \in ObjectsOf(MaxAttrs) :
                           \A i, j \in 1..Len(p) : p[i][1] = p[j][1] => i = j}}

\* de = _create_dataelement(tag, vr, value)
CreateDataElement ==
    /\ pc = "idle"
    /\ \E tag \in Tags, vr \in VRs, value \in RawValues, order \in KeyOrders :
          /\ call' = [op |-> "create", tag |-> tag, vr |-> vr, value |-> value,
                      order |-> order]
          /\ ret' = create_dataelement(tag, vr, value, order)
    /\ pc' = "created"

\* load_json_dataset(dataset): ds = _init_dataset()
LoadBegin ==
    /\ pc = "idle"
    /\ \E dataset \in JsonObjects, order \in KeyOrders :
          call' = [op |-> "load", dataset |-> dataset, order |-> order,
                   i |-> 1, ds |-> init_dataset]
    /\ pc' = "loading"
    /\ UNCHANGED ret

\* the body of the loop for the next attribute; an exception ends the call
LoadStep ==
    /\ pc = "loading"
    /\ call.i <= Len(call.dataset.pairs)
    /\ LET attr == call.dataset.pairs[call.i]
           r    == LoadAttribute(call.ds, attr[1], attr[2], call.order)
       IN  IF r.status = "raise"
           THEN pc' = "failed" /\ ret' = r /\ UNCHANGED call
           ELSE /\ pc' = "loading"
                /\ call' = [call EXCEPT !.i = @ + 1, !.ds = r.value]
                /\ UNCHANGED ret

\* return ds
LoadReturn ==
    /\ pc = "loading"
    /\ call.i > Len(call.dataset.pairs)
    /\ pc' = "loaded"
    /\ ret' = Ok(call.ds)
    /\ UNCHANGED call

NextJson == CreateDataElement \/ LoadBegin \/ LoadStep \/ LoadReturn

SpecJson == Init /\ [][NextJson]_vars

(***************************************************************************)
(* _map_color_mode and retrieve_instance_frames                            *)
(***************************************************************************)

color_map == [RGB |-> "RGB", MONOCHROME2 |-> "L", YBR_FULL_422 |-> "YCbCr"]

\* a table with the modes of RGB and MONOCHROME2 exchanged
map_color_mode_swapped(photometic_interpretation) ==
    IF photometic_interpretation = PyStr("RGB") THEN Ok("L")
    ELSE IF photometic_interpretation = PyStr("MONOCHROME2") THEN Ok("RGB")
    ELSE IF photometic_interpretation = PyStr("YBR_FULL_422") THEN Ok("YCbCr")
    ELSE Raise("KeyError")

\* mode = color_map[photometic_interpretation]; the except clause names
\* IndexError, which a dict lookup never raises: the KeyError of a missing
\* key and the TypeError of an unhashable key pass through it
map_color_mode(photometic_interpretation) ==
    IF photometic_interpretation.k = "str"
           /\ photometic_interpretation.s \in DOMAIN color_map
    THEN Ok(color_map[photometic_interpretation.s])
    ELSE IF photometic_interpretation.k \in {"list", "dict"}
    THEN Raise("TypeError")
    ELSE Raise("KeyError")

\* for tag, mapping in dataset.items(): ...
RECURSIVE LoadLoop(_, _, _, _)
LoadLoop(pairs, i, ds, order) ==
    IF i > Len(pairs) THEN Ok(ds)
    ELSE LET next(r) ==
                 IF r.status = "raise" THEN r
                 ELSE LoadLoop(pairs, i + 1, r.value, order)
         IN  Call(next, LoadAttribute(ds, pairs[i][1], pairs[i][2], order))

\* load_json_dataset(dataset); dataset.items() of anything but a mapping
\* raises AttributeError
load_json_dataset(dataset, order) ==
    IF dataset.k # "dict" THEN Raise("AttributeError")
    ELSE LoadLoop(dataset.pairs, 1, init_dataset, order)

\* the tags of the keywords that retrieve_instance_frames reads
PhotometricInterpretationTag == "00280004"

RowsTag == "00280010"

ColumnsTag == "00280011"

\* dataset.<keyword>: the value of the element, AttributeError without it
GetAttr(dataset, tag) ==
    IF tag \in DOMAIN dataset.elems THEN Ok(dataset.elems[tag].value)
    ELSE Raise("AttributeError")

\* the bytes of a pixel in the raw layout of a mode of the table
BytesPerPixel(mode) == IF mode = "L" THEN 1 ELSE 3

\* an image of that mode and size (width, height) over its bytes
Image(mode, size, data) == [k |-> "Image", mode |-> mode, size |-> size, data |-> data]

\* PIL.Image.frombytes(mode, size, data), for the modes of the table and the
\* sizes of the model (positive integers): TypeError when data is None,
\* ValueError (not enough image data) when data is shorter than the image;
\* the raw decoder stops at the last row, so bytes beyond it are ignored
frombytes(mode, size, data) ==
    IF data = PyNone THEN Raise("TypeError")
    ELSE IF Len(data.s) < size[1].n * size[2].n * BytesPerPixel(mode)
    THEN Raise("ValueError")
    ELSE Ok(Image(mode, size,
                  SubSeq(data.s, 1, size[1].n * size[2].n * BytesPerPixel(mode))))

\* [Image.frombytes(mode, size, d) for d in pixeldata]: the first part that
\* frombytes refuses ends the comprehension
RECURSIVE Images(_, _, _)
Images(mode, size, pixeldata) ==
    IF pixeldata = <<>> THEN Ok(<<>>)
    ELSE LET rest(image) ==
                 IF image.status = "raise" THEN image
                 ELSE LET all(images) ==
                              IF images.status = "raise" THEN images
                              ELSE Ok(<<image.value>> \o images.value)
                      IN  Call(all, Images(mode, size, Tail(pixeldata)))
         IN  Call(rest, frombytes(mode, size, Head(pixeldata)))

base_url == "http://h"

DecimalDigits == {"0", "1", "2", "3", "4", "5", "6", "7", "8", "9"}

\* str(value), as str.format renders a keyword argument
FormatValue(value) ==
    IF value = PyNone THEN "None"
    ELSE IF value.k = "int" THEN ToString(value.n)
    ELSE value.s

DigitValue(c) == CHOOSE n \in 0..9 : ToString(n) = c

\* sys.maxsize (PY_SSIZE_T_MAX), the largest index, in decimal
MaxIndex == "9223372036854775807"

\* the decimal digits at the front of name
DigitPrefix(name) ==
    LET others == {i \in 1..Len(name) : Char(name, i) \notin DecimalDigits}
    IN  IF others = {} THEN name
        ELSE SubSeq(name, 1, (CHOOSE i \in others : \A k \in others : i <= k) - 1)

\* get_integer: the number that the digits write exceeds sys.maxsize
TooManyDigits(digits) ==
    LET nonzero == {i \in 1..Len(digits) : Char(digits, i) # "0"}
        d == IF nonzero = {} THEN ""
             ELSE From(digits, (CHOOSE i \in nonzero : \A k \in nonzero : i <= k) - 1)
    IN  \/ Len(d) > Len(MaxIndex)
        \/ /\ Len(d) = Len(MaxIndex)
           /\ \E i \in 1..Len(d) :
                 /\ DigitValue(Char(d, i)) > DigitValue(Char(MaxIndex, i))
                 /\ \A j \in 1..(i - 1) : Char(d, j) = Char(MaxIndex, j)

\* the replacement of the field of that name.  The name is read as a number
\* digit by digit, which is a ValueError (too many decimal digits) as soon as
\* the number exceeds sys.maxsize; an empty name and a number are indexes
\* into the positional arguments, and the code passes none; any other name
\* is looked up in the keyword arguments
FormatField(name, kwargs) ==
    IF TooManyDigits(DigitPrefix(name)) THEN Raise("ValueError")
    ELSE IF DigitPrefix(name) = name THEN Raise("IndexError")
    ELSE IF name \notin DOMAIN kwargs THEN Raise("KeyError")
    ELSE Ok(FormatValue(kwargs[name]))

\* str.format(**kwargs), left to right: {{ and }} stand for a brace, {name}
\* is replaced, a brace alone is a ValueError.  No string of the model has
\* one of ! : . [ inside a field, so conversions, format specifications and
\* attribute or index lookups are left out.
RECURSIVE Format(_, _)
Format(s, kwargs) ==
    LET braces == {i \in 1..Len(s) : Char(s, i) \in {"{", "}"}}
        then(text, r) == IF r.status = "raise" THEN r ELSE Ok(text \o r.value)
        \* a field opens at i: its name runs to the first }
        field(i) ==
            LET rest  == From(s, i)
                stops == {j \in 1..Len(rest) : Char(rest, j) \in {"{", "}"}}
                close(j) ==
                    IF Char(rest, j) = "{" THEN Raise("ValueError")
                    ELSE LET value(f) ==
                                 IF f.status = "raise" THEN f
                                 ELSE then(SubSeq(s, 1, i - 1) \o f.value,
                                           Format(From(rest, j), kwargs))
                         IN  Call(value, FormatField(SubSeq(rest, 1, j - 1), kwargs))
            IN  IF stops = {} THEN Raise("ValueError")
                ELSE close(CHOOSE j \in stops : \A k \in stops : j <= k)
        first(i) ==
            IF i < Len(s) /\ Char(s, i + 1) = Char(s, i)
            THEN then(SubSeq(s, 1, i), Format(From(s, i + 1), kwargs))
            ELSE IF Char(s, i) = "}" \/ i = Len(s) THEN Raise("ValueError")
            ELSE field(i)
    IN  IF braces = {} THEN Ok(s)
        ELSE first(CHOOSE i \in braces : \A k \in braces : i <= k)

\* _get_studies_url
get_studies_url(study_instance_uid) ==
    Format(IF study_instance_uid # PyNone
           THEN "{service}/studies/{study_instance_uid}"
           ELSE "{service}/studies",
           [service |-> PyStr(base_url), study_instance_uid |-> study_instance_uid])

\* _get_series_url: the URL of the study, formatted already, is extended
\* and formatted again
get_series_url(study_instance_uid, series_instance_uid) ==
    LET format(url) ==
            Format(url, [service |-> PyStr(base_url),
                         series_instance_uid |-> series_instance_uid])
        extend(url) ==
            IF url.status = "raise" THEN url
            ELSE format(url.value \o (IF series_instance_uid # PyNone
                                      THEN "/series/{series_instance_uid}"
                                      ELSE "/series"))
    IN  IF study_instance_uid # PyNone
        THEN Call(extend, get_studies_url(study_instance_uid))
        ELSE format("{service}/series")

\* _get_instances_url: the URL of the series, formatted already, is extended
\* and formatted again
get_instances_url(study_instance_uid, series_instance_uid, sop_instance_uid) ==
    LET format(url) ==
            Format(url, [service |-> PyStr(base_url),
                         sop_instance_uid |-> sop_instance_uid])
        extend(url) ==
            IF url.status = "raise" THEN url
            ELSE format(url.value \o "/instances"
                           \o (IF sop_instance_uid # PyNone
                               THEN "/{sop_instance_uid}"
                               ELSE ""))
    IN  IF study_instance_uid # PyNone /\ series_instance_uid # PyNone
        THEN Call(extend, get_series_url(study_instance_uid, series_instance_uid))
        ELSE format("{service}/instances")

\* ','.join([str(n) for n in frame_numbers])
RECURSIVE FrameList(_)
FrameList(frame_numbers) ==
    IF frame_numbers = <<>> THEN ""
    ELSE IF Len(frame_numbers) = 1 THEN ToString(frame_numbers[1])
    ELSE ToString(frame_numbers[1]) \o "," \o FrameList(Tail(frame_numbers))

\* a check that lets every UID through
UidMissingNever(study_instance_uid, series_instance_uid, sop_instance_uid) == FALSE

\* if <uid> is None: raise ValueError, for each of the three
UidMissing(study_instance_uid, series_instance_uid, sop_instance_uid) ==
    \/ study_instance_uid = PyNone
    \/ series_instance_uid = PyNone
    \/ sop_instance_uid = PyNone


(***************************************************************************)
(* The frame retrieval at work: _map_color_mode called directly, and       *)
(* retrieve_instance_frames step by step against a server.                 *)
(***************************************************************************)

\* the most frame numbers of a call
MaxFrames == 2

PhotometricValues ==
    {PyStr("RGB"), PyStr("MONOCHROME2"), PyStr("YBR_FULL_422"), PyStr("FOO"),
     PyStr("PALETTE COLOR"), PyStr("")}

\* no UID, a UID, and strings that read as a replacement field: a name, and
\* a number beyond sys.maxsize
Uids == {PyNone, PyStr("1.2"), PyStr("{x}"), PyStr("{9223372036854775808}")}

\* the first n frames, and the last one alone
FrameNumbers == {[i \in 1..n |-> i] : n \in 1..MaxFrames} \cup {<<MaxFrames>>}

\* {"vr": "CS", "Value": [interpretation]}
PhotometricAttribute(value) == Attribute("CS", "Value", PyList(<<value>>))

\* {"vr": "US", "Value": [n]}
UnsignedAttribute(n) == Attribute("US", "Value", PyList(<<PyInt(n)>>))

\* the metadata of an instance: interpretation, Rows, Columns
Metadata(interpretation, rows, columns) ==
    PyDict(<<<<PhotometricInterpretationTag, PhotometricAttribute(interpretation)>>,
             <<RowsTag, UnsignedAttribute(rows)>>,
             <<ColumnsTag, UnsignedAttribute(columns)>>>>)

\* what the server returns as JSON: the metadata of instances of 2 rows and
\* 3 columns or of 1 by 1, metadata wrapped in an array, metadata without
\* an interpretation, without Columns, with an attribute without "vr"
MetadataDocuments ==
    {Metadata(value, 2, 3) : value \in PhotometricValues}
        \cup {Metadata(PyStr("MONOCHROME2"), 1, 1),
              PyList(<<Metadata(PyStr("RGB"), 2, 3)>>),
              PyDict(<<<<RowsTag, UnsignedAttribute(2)>>,
                       <<ColumnsTag, UnsignedAttribute(3)>>>>),
              PyDict(<<<<PhotometricInterpretationTag,
                         PhotometricAttribute(PyStr("RGB"))>>,
                       <<RowsTag, UnsignedAttribute(2)>>>>),
              PyDict(<<<<PhotometricInterpretationTag,
                         PhotometricAttribute(PyStr("RGB"))>>,
                       <<RowsTag, NoVrAttribute>>,
                       <<ColumnsTag, UnsignedAttribute(3)>>>>)}

\* the responses to the metadata GET: a status, and for 200 a JSON document
\* or an empty body
MetadataResponses ==
    {[status |-> 200, content |-> d] : d \in MetadataDocuments \cup {PyNone}}
        \cup {[status |-> st, content |-> PyNone] : st \in {404, 500}}

\* the frames a server sends: one and two frames of six bytes, a frame of
\* eighteen, frames too short for an image of 2 rows and 3 columns, and a
\* frame that reads as a delimiter
FramePayloads ==
    {<<"abcdef">>, <<"abcdef", "ghijkl">>, <<"abcdefghijklmnopqr">>,
     <<"abc", "def">>, <<"x\r\n", "--boundary">>}

FrameResponseKinds == {"complete", "unterminated", "plain", "digest"}

JsonAccept == "application/dicom+json"

\* _map_color_mode(photometic_interpretation)
MapColorMode ==
    /\ pc = "idle"
    /\ \E value \in PhotometricValues :
          /\ call' = [op |-> "map", photometic_interpretation |-> value]
          /\ ret' = map_color_mode(value)
    /\ pc' = "mapped"

\* retrieve_instance_frames(study, series, instance, frame_numbers) is called
FramesBegin ==
    /\ pc = "idle"
    /\ \E study \in Uids, series \in Uids, instance \in Uids,
          frame_numbers \in FrameNumbers :
          call' = [op |-> "frames",
                   study_instance_uid |-> study,
                   series_instance_uid |-> series,
                   sop_instance_uid |-> instance,
                   frame_numbers |-> frame_numbers,
                   requests |-> <<>>, responses |-> <<>>,
                   metadata |-> PyNone, dataset |-> PyNone,
                   mode |-> "", size |-> <<>>,
                   kind |-> "", data |-> <<>>, headers |-> <<>>, body |-> "",
                   pixeldata |-> <<>>]
    /\ pc' = "checking"
    /\ UNCHANGED ret

\* a step of the call raises
Fail(exc) == pc' = "failed" /\ ret' = Raise(exc) /\ UNCHANGED call

\* the three tests of retrieve_instance_frames for a UID that is None
FramesCheckUids ==
    /\ pc = "checking"
    /\ IF UidMissing(call.study_instance_uid, call.series_instance_uid,
                     call.sop_instance_uid)
       THEN Fail("ValueError")
       ELSE pc' = "metadata" /\ UNCHANGED <<call, ret>>

\* retrieve_instance_metadata: its own three tests, then the GET of
\* <instance url>/metadata through _http_get_application_json
MetadataRequest ==
    /\ pc = "metadata"
    /\ IF UidMissing(call.study_instance_uid, call.series_instance_uid,
                     call.sop_instance_uid)
       THEN Fail("ValueError")
       ELSE \E url \in {get_instances_url(call.study_instance_uid,
                                         call.series_instance_uid,
                                         call.sop_instance_uid)} :
               IF url.status = "raise" THEN Fail(url.exc)
               ELSE /\ call' = [call EXCEPT !.requests =
                                  Append(@, Request(url.value \o "/metadata",
                                                    JsonAccept))]
                    /\ pc' = "metadata_sent"
                    /\ UNCHANGED ret

\* the server answers: resp.raise_for_status(), then resp.json() if the
\* body is not empty, None otherwise
MetadataResponse ==
    /\ pc = "metadata_sent"
    /\ \E resp \in MetadataResponses :
          IF resp.status >= 400
          THEN /\ pc' = "failed" /\ ret' = Raise("HTTPError")
               /\ call' = [call EXCEPT !.responses = Append(@, resp.status)]
          ELSE /\ call' = [call EXCEPT !.responses = Append(@, resp.status),
                                       !.metadata = resp.content]
               /\ pc' = "converting"
               /\ UNCHANGED ret

\* dataset = load_json_dataset(metadata)
FramesConvert ==
    /\ pc = "converting"
    /\ \E order \in KeyOrders :
          \E r \in {load_json_dataset(call.metadata, order)} :
             IF r.status = "raise" THEN Fail(r.exc)
             ELSE /\ call' = [call EXCEPT !.dataset = r.value]
                  /\ pc' = "mapping"
                  /\ UNCHANGED ret

\* mode = _map_color_mode(dataset.PhotometricInterpretation)
FramesMapMode ==
    /\ pc = "mapping"
    /\ LET value == GetAttr(call.dataset, PhotometricInterpretationTag)
       IN  IF value.status = "raise" THEN Fail(value.exc)
           ELSE LET mode == map_color_mode(value.value)
                IN  IF mode.status = "raise" THEN Fail(mode.exc)
                    ELSE /\ call' = [call EXCEPT !.mode = mode.value]
                         /\ pc' = "sizing"
                         /\ UNCHANGED ret

\* size = (dataset.Columns, dataset.Rows)
FramesSize ==
    /\ pc = "sizing"
    /\ LET columns == GetAttr(call.dataset, ColumnsTag)
           rows    == GetAttr(call.dataset, RowsTag)
       IN  IF columns.status = "raise" THEN Fail(columns.exc)
           ELSE IF rows.status = "raise" THEN Fail(rows.exc)
           ELSE /\ call' = [call EXCEPT !.size = <<columns.value, rows.value>>]
                /\ pc' = "frames"
                /\ UNCHANGED ret

\* the GET of <instance url>/frames/<frame list> through
\* _http_get_multipart_application_octet_stream
FramesRequest ==
    /\ pc = "frames"
    /\ \E url \in {get_instances_url(call.study_instance_uid,
                                     call.series_instance_uid,
                                     call.sop_instance_uid)} :
          IF url.status = "raise" THEN Fail(url.exc)
          ELSE /\ call' = [call EXCEPT !.requests =
                             Append(@, Request(url.value \o "/frames/"
                                                  \o FrameList(call.frame_numbers),
                                               OctetStreamAccept))]
               /\ pc' = "frames_sent"
               /\ UNCHANGED ret

\* the server answers the frames GET and _http_get runs
\* resp.raise_for_status()
FramesResponse ==
    /\ pc = "frames_sent"
    /\ \E status \in {200, 404}, kind \in FrameResponseKinds,
          data \in FramePayloads :
          IF status >= 400
          THEN /\ pc' = "failed" /\ ret' = Raise("HTTPError")
               /\ call' = [call EXCEPT !.responses = Append(@, status)]
          ELSE \E body \in {Respond(kind, data, "application/octet-stream", "boundary")} :
                  /\ call' = [call EXCEPT
                                !.responses = Append(@, status),
                                !.kind = kind,
                                !.data = data,
                                !.headers =
                                    ResponseHeaders(
                                        ResponseContentType(
                                            kind, "application/octet-stream",
                                            "boundary", TRUE),
                                        body, TRUE),
                                !.body = body]
                  /\ pc' = "frames_received"
                  /\ UNCHANGED ret

\* pixeldata = self._decode_multipart_message(resp.content, resp.headers)
FramesDecode ==
    /\ pc = "frames_received"
    /\ \E pixeldata \in {decode_multipart_message(call.body, call.headers)} :
          call' = [call EXCEPT !.pixeldata = pixeldata.value]
    /\ pc' = "decoded_frames"
    /\ UNCHANGED ret

\* return [Image.frombytes(mode, size, d) for d in pixeldata]
FramesReturn ==
    /\ pc = "decoded_frames"
    /\ \E images \in {Images(call.mode, call.size, call.pixeldata)} :
          /\ ret' = images
          /\ pc' = IF images.status = "raise" THEN "failed" ELSE "done"
    /\ UNCHANGED call

NextFrames ==
    \/ MapColorMode
    \/ FramesBegin
    \/ FramesCheckUids
    \/ MetadataRequest
    \/ MetadataResponse
    \/ FramesConvert
    \/ FramesMapMode
    \/ FramesSize
    \/ FramesRequest
    \/ FramesResponse
    \/ FramesDecode
    \/ FramesReturn

SpecFrames == Init /\ [][NextFrames]_vars


(***************************************************************************)
(* Properties of the conversions                                           *)
(***************************************************************************)

Created == pc = "created"

IsList(v) == v.k = "list"

\* the mapping has an attribute without "vr", directly or inside the items
\* of its sequences, at any depth
RECURSIVE ItemLacksVr(_)
ItemLacksVr(item) ==
    /\ item.k = "dict"
    /\ \E i \in 1..Len(item.pairs) :
          LET val == item.pairs[i][2]
          IN  /\ val.k = "dict"
              /\ \/ ~HasKey(val, "vr")
                 \/ /\ PyGet(val, "vr").value = PyStr("SQ")
                    /\ HasKey(val, "Value")
                    /\ IsList(PyGet(val, "Value").value)
                    /\ \E j \in 1..Len(PyGet(val, "Value").value.items) :
                          ItemLacksVr(PyGet(val, "Value").value.items[j])

\* the Value of a sequence has an item with a nested attribute without "vr"
SequenceLacksVr(value) ==
    IsList(value) /\ \E j \in 1..Len(value.items) : ItemLacksVr(value.items[j])

\* the top-level attribute is a sequence with a nested attribute without "vr"
AttributeLacksNestedVr(mapping) ==
    /\ HasKey(mapping, "vr")
    /\ PyGet(mapping, "vr").value = PyStr("SQ")
    /\ HasKey(mapping, "Value")
    /\ SequenceLacksVr(PyGet(mapping, "Value").value)

\* the tag's value multiplicity is other than 1: from the dictionary, or
\* for a private tag the length of the Value array
MultiValued(tag, value) ==
    IF tag \in RegisteredTags THEN dictionary_VM(tag) # "1"
    ELSE Len(value.items) # 1

\* C6 as stated: for every tag, registered or private, and every VR that is
\* not binary, _create_dataelement with a raw value that is not a list fails
\* with DICOMJSONError and with no other error.
C6_NonArrayValueRejected ==
    (Created /\ call.vr \notin binary_representations /\ ~IsList(call.value))
        => ret = Raise("DICOMJSONError")

\* C7 as stated: when load_json_dataset reaches a top-level attribute whose
\* mapping has no "vr" key it fails with DICOMJSONError.
C7_MissingVrFailsFast ==
    (pc = "failed" /\ ~HasKey(call.dataset.pairs[call.i][2], "vr"))
        => ret = Raise("DICOMJSONError")

\* C8 as stated: when an attribute nested in an item of a sequence, at any
\* depth, has no "vr" key, _create_dataelement for the sequence fails with
\* DICOMJSONError, load_json_dataset fails with DICOMJSONError at the
\* attribute that holds the sequence, and no data set is returned for an
\* object that holds such a sequence.
C8_NestedMissingVrAborts ==
    /\ (Created /\ call.vr = "SQ" /\ SequenceLacksVr(call.value))
          => ret = Raise("DICOMJSONError")
    /\ (pc = "failed" /\ AttributeLacksNestedVr(call.dataset.pairs[call.i][2]))
          => ret = Raise("DICOMJSONError")
    /\ pc = "loaded"
          => \A i \in 1..Len(call.dataset.pairs) :
                ~AttributeLacksNestedVr(call.dataset.pairs[i][2])

\* C9 as stated: for every VR that is not binary, a tag of VM 1 and a Value
\* array of one element, the element's value is that single element; for an
\* empty Value array it is the empty array.
C9_ScalarUnwrapEveryVR ==
    (/\ Created
     /\ call.vr \notin binary_representations
     /\ call.tag \in RegisteredTags /\ dictionary_VM(call.tag) = "1"
     /\ IsList(call.value) /\ Len(call.value.items) <= 1)
        => ret = Ok(DataElement(call.tag,
                                IF call.value.items = <<>> THEN call.value
                                ELSE call.value.items[1],
                                call.vr))

\* C9, for the VRs of the last branch: for every VR that is not binary and
\* neither SQ nor PN, a tag of VM 1 and a Value array of one element, the
\* element's value is that single element; for an empty Value array it is
\* the empty array.
C9_ScalarUnwrap ==
    (/\ Created
     /\ call.vr \notin binary_representations \cup {"SQ", "PN"}
     /\ call.tag \in RegisteredTags /\ dictionary_VM(call.tag) = "1"
     /\ IsList(call.value) /\ Len(call.value.items) <= 1)
        => ret = Ok(DataElement(call.tag,
                                IF call.value.items = <<>> THEN call.value
                                ELSE call.value.items[1],
                                call.vr))

\* C9's case: a UI attribute of VM 1 with a one-element Value came out as
\* the scalar
C9_Witness ==
    /\ Created
    /\ call.vr = "UI" /\ call.tag = "00080018"
    /\ call.value = PyList(<<PyStr("A")>>)
    /\ ret = Ok(DataElement("00080018", PyStr("A"), "UI"))

\* what C10 states of a Value array: the components of a single string
\* that contains the separator, and any other array unchanged
SplitOrUnchanged(value) ==
    IF /\ Len(value.items) = 1
       /\ value.items[1].k = "str"
       /\ Contains(value.items[1].s, "\\")
    THEN SplitBackslash(value.items[1].s)
    ELSE value

\* C10 as stated: for every VR, a tag of VM other than 1 and a Value array,
\* the element's value is the backslash-separated components of a single
\* string element that contains the separator, and the Value array
\* unchanged in every other case.
C10_BackslashSplitEveryVR ==
    (Created /\ IsList(call.value) /\ MultiValued(call.tag, call.value))
        => ret = Ok(DataElement(call.tag, SplitOrUnchanged(call.value), call.vr))

\* C10, for the VRs of the last branch: for every VR other than SQ and PN,
\* a tag of VM other than 1 and a Value array, the element's value is the
\* backslash-separated components of a single string element that contains
\* the separator, and the Value array unchanged in every other case.
C10_BackslashSplit ==
    (/\ Created /\ IsList(call.value) /\ MultiValued(call.tag, call.value)
     /\ call.vr \notin {"SQ", "PN"})
        => ret = Ok(DataElement(call.tag, SplitOrUnchanged(call.value), call.vr))

\* C10's case: ['A\B\C'] of a CS attribute of VM 2-n came out as A, B, C
C10_Witness ==
    /\ Created
    /\ call.vr = "CS" /\ call.tag = "00080008"
    /\ call.value = PyList(<<PyStr("A\\B\\C")>>)
    /\ ret = Ok(DataElement("00080008",
                            PyList(<<PyStr("A"), PyStr("B"), PyStr("C")>>), "CS"))

\* the object of one PN attribute, PatientName
PatientNameObject ==
    PyDict(<<<<"00100010", Attribute("PN", "Value", PyList(<<PersonName>>))>>>>)

\* C11 as stated: for a PN attribute whose Value is a list the call returns
\* an element whose value has one entry per input entry, in order, the
\* 'Alphabetic' component for an entry that is a mapping and the entry
\* itself otherwise; the object with PatientName [{'Alphabetic':
\* 'Doe^John'}] loads as a data set of exactly one element, tag 00100010,
\* with the one name 'Doe^John'.
C11_PersonNameMap ==
    /\ (Created /\ call.vr = "PN" /\ IsList(call.value))
          => /\ ret.status = "ok"
             /\ ret.value.tag = call.tag /\ ret.value.VR = "PN"
             /\ IsList(ret.value.value)
             /\ Len(ret.value.value.items) = Len(call.value.items)
             /\ \A i \in 1..Len(call.value.items) :
                   IF call.value.items[i].k = "dict"
                   THEN PyGet(call.value.items[i], "Alphabetic")
                            = Ok(ret.value.value.items[i])
                   ELSE ret.value.value.items[i] = call.value.items[i]
    /\ (pc = "loaded" /\ call.dataset = PatientNameObject)
          => ret = Ok(Dataset("00100010" :>
                         DataElement("00100010", PyList(<<PyStr("Doe^John")>>), "PN")))

\* the value keys the nested attribute object has
Carriers(val) == {key \in supported_value_keys : HasKey(val, key)}

\* the nested attribute object has "vr" and exactly one of the value keys
WellFormedNested(val) ==
    val.k = "dict" /\ HasKey(val, "vr") /\ Cardinality(Carriers(val)) = 1

\* the conversion of the nested attribute with its own tag and its own vr
ConvertNested(key, val) ==
    create_dataelement(key, PyGet(val, "vr").value.s,
                       PyGet(val, CHOOSE k \in Carriers(val) : TRUE).value,
                       call.order)

\* the Value of a sequence is one item, a mapping of well-formed nested
\* attributes each of which converts
OneWellFormedItem(value) ==
    /\ IsList(value) /\ Len(value.items) = 1
    /\ value.items[1].k = "dict"
    /\ \A i \in 1..Len(value.items[1].pairs) :
          /\ WellFormedNested(value.items[1].pairs[i][2])
          /\ ConvertNested(value.items[1].pairs[i][1],
                           value.items[1].pairs[i][2]).status = "ok"

\* C12: for an SQ attribute whose Value is one mapping from nested tag to
\* nested attribute object (each with its vr and a value key, each
\* converting), the element's value is a list of exactly one nested data
\* set, which holds exactly one element per nested attribute, under the
\* nested attribute's own tag, equal to the conversion of that nested
\* attribute with its own vr.
C12_SequenceStructure ==
    (Created /\ call.vr = "SQ" /\ OneWellFormedItem(call.value))
        => LET pairs == call.value.items[1].pairs
           IN  /\ ret.status = "ok"
               /\ ret.value.tag = call.tag /\ ret.value.VR = "SQ"
               /\ IsList(ret.value.value) /\ Len(ret.value.value.items) = 1
               /\ ret.value.value.items[1].k = "Dataset"
               /\ DOMAIN ret.value.value.items[1].elems
                     = {pairs[i][1] : i \in 1..Len(pairs)}
               /\ \A i \in 1..Len(pairs) :
                     /\ ret.value.value.items[1].elems[pairs[i][1]]
                           = ConvertNested(pairs[i][1], pairs[i][2]).value
                     /\ ret.value.value.items[1].elems[pairs[i][1]].tag = pairs[i][1]

\* C12's case: the sequence of one item with SOPInstanceUID 1.2.3 came out
\* as one nested data set with the one element 00080018
C12_Witness ==
    /\ Created
    /\ call.vr = "SQ" /\ call.tag = "00081115"
    /\ call.value = PyList(<<GoodItem>>)
    /\ ret = Ok(DataElement("00081115",
                   PyList(<<Dataset("00080018" :>
                               DataElement("00080018", PyStr("1.2.3"), "UI"))>>),
                   "SQ"))

\* the nested attribute object has "vr" and none of the value keys
LacksCarrier(val) == val.k = "dict" /\ HasKey(val, "vr") /\ Carriers(val) = {}

\* the Value of a sequence is one item, a mapping of nested attributes that
\* have "vr", at least one without a value key, the others converting
OneLenientItem(value) ==
    /\ IsList(value) /\ Len(value.items) = 1
    /\ value.items[1].k = "dict"
    /\ \E i \in 1..Len(value.items[1].pairs) :
          LacksCarrier(value.items[1].pairs[i][2])
    /\ \A i \in 1..Len(value.items[1].pairs) :
          \/ LacksCarrier(value.items[1].pairs[i][2])
          \/ /\ WellFormedNested(value.items[1].pairs[i][2])
             /\ ConvertNested(value.items[1].pairs[i][1],
                              value.items[1].pairs[i][2]).status = "ok"

\* C13 as stated: when a nested attribute of the item of a sequence has a
\* vr but no Value, BulkDataURI or InlineBinary, _create_dataelement does
\* not raise and the nested data set holds an element for that nested
\* attribute, with its own tag, its own vr and an absent value, next to the
\* elements of the other nested attributes.
C13_MissingCarrierLenient ==
    (Created /\ call.vr = "SQ" /\ OneLenientItem(call.value))
        => LET pairs == call.value.items[1].pairs
           IN  /\ ret.status = "ok"
               /\ IsList(ret.value.value) /\ Len(ret.value.value.items) = 1
               /\ DOMAIN ret.value.value.items[1].elems
                     = {pairs[i][1] : i \in 1..Len(pairs)}
               /\ \A i \in 1..Len(pairs) :
                     ret.value.value.items[1].elems[pairs[i][1]]
                        = IF LacksCarrier(pairs[i][2])
                          THEN DataElement(pairs[i][1], PyNone,
                                           PyGet(pairs[i][2], "vr").value.s)
                          ELSE ConvertNested(pairs[i][1], pairs[i][2]).value

\* the attribute mapping has "vr" and no "Value"
LacksValue(mapping) == HasKey(mapping, "vr") /\ ~HasKey(mapping, "Value")

\* every attribute of the loaded object has its element in the data set
AllElementsPresent ==
    DOMAIN ret.value.elems
        = {call.dataset.pairs[i][1] : i \in 1..Len(call.dataset.pairs)}

\* C14 as stated: an attribute with "vr" of any VR and VM and no "Value"
\* never makes load_json_dataset raise, and the data set returned holds an
\* element with an absent value for its tag, and the elements of all other
\* attributes.
C14_MissingValueAbsent ==
    /\ pc = "failed" => ~LacksValue(call.dataset.pairs[call.i][2])
    /\ pc = "loaded"
          => /\ AllElementsPresent
             /\ \A i \in 1..Len(call.dataset.pairs) :
                   LacksValue(call.dataset.pairs[i][2])
                      => ret.value.elems[call.dataset.pairs[i][1]].value = PyNone

\* what [None] converts to: one empty data set for SQ; [None] itself for
\* PN, for a binary VR and for a registered tag of VM other than 1; None
\* for any other VR with a tag of VM 1 or a private tag
SubstituteValue(tag, vr) ==
    IF vr = "SQ" THEN PyList(<<init_dataset>>)
    ELSE IF \/ vr = "PN"
            \/ vr \in binary_representations
            \/ (tag \in RegisteredTags /\ dictionary_VM(tag) # "1")
         THEN PyList(<<PyNone>>)
         ELSE PyNone

\* C14, with the value spelled out: an attribute with "vr" and no "Value"
\* never makes load_json_dataset raise, and the data set returned holds for
\* its tag an element with its vr and the value that [None] converts to
\* (None, [None] or one empty nested data set), and the elements of all
\* other attributes.
C14_MissingValueTolerated ==
    /\ pc = "failed" => ~LacksValue(call.dataset.pairs[call.i][2])
    /\ pc = "loaded"
          => /\ AllElementsPresent
             /\ \A i \in 1..Len(call.dataset.pairs) :
                   LET tag == call.dataset.pairs[i][1]
                       vr  == PyGet(call.dataset.pairs[i][2], "vr").value.s
                   IN  LacksValue(call.dataset.pairs[i][2])
                          => ret.value.elems[tag]
                                = DataElement(tag, SubstituteValue(tag, vr), vr)

\* C14's case: an object with a PN attribute without Value and another
\* attribute was loaded, both elements present
C14_Witness ==
    /\ pc = "loaded"
    /\ Len(call.dataset.pairs) = 2
    /\ call.dataset.pairs[1] = <<"00100010", PyDict(<<<<"vr", PyStr("PN")>>>>)>>
    /\ call.dataset.pairs[2][1] = "00080018"
    /\ ret.value.elems["00100010"].value = PyList(<<PyNone>>)
    /\ ret.value.elems["00080018"].value = PyStr("1.2.3")

\* C17 as stated: for every binary VR, every tag and every raw value,
\* _create_dataelement does not raise and the element's value is the raw
\* value itself.
C17_BinaryPassThrough ==
    (Created /\ call.vr \in binary_representations)
        => ret = Ok(DataElement(call.tag, call.value, call.vr))

\* C18 as stated: for a tag outside the dictionary and a VR that is not
\* binary, SQ or PN, the element's value is the Value array as it is, for
\* every length of the array.
C18_PrivateKeepsArray ==
    (/\ Created /\ call.tag \notin RegisteredTags
     /\ call.vr \notin binary_representations \cup {"SQ", "PN"}
     /\ IsList(call.value))
        => ret = Ok(DataElement(call.tag, call.value, call.vr))

\* C18, with the array of one element: for a tag outside the dictionary and
\* a VR that is not binary, SQ or PN, VM is the length of the Value array;
\* an array of one element is unwrapped to that element, an array of any
\* other length is the element's value as it is.
C18_PrivateByLength ==
    (/\ Created /\ call.tag \notin RegisteredTags
     /\ call.vr \notin binary_representations \cup {"SQ", "PN"}
     /\ IsList(call.value))
        => ret = Ok(DataElement(call.tag,
                                IF Len(call.value.items) = 1
                                THEN call.value.items[1] ELSE call.value,
                                call.vr))

\* C18's case: a private LO attribute with ['A'] came out as the scalar
C18_Witness ==
    /\ Created
    /\ call.tag = "00091001" /\ call.vr = "LO"
    /\ call.value = PyList(<<PyStr("A")>>)
    /\ ret = Ok(DataElement("00091001", PyStr("A"), "LO"))

(***************************************************************************)
(* Properties of the frame retrieval                                       *)
(***************************************************************************)

SupportedInterpretations == {"RGB", "MONOCHROME2", "YBR_FULL_422"}

\* the table of the pixel layouts
LayoutOf(interpretation) ==
    CASE interpretation = "RGB"          -> "RGB"
      [] interpretation = "MONOCHROME2"  -> "L"
      [] interpretation = "YBR_FULL_422" -> "YCbCr"

\* the single value of the attribute in the metadata the server sent
MetadataValue(tag) ==
    PyGet(PyGet(call.metadata, tag).value, "Value").value.items[1]

\* C15 as stated: for every photometric interpretation other than RGB,
\* MONOCHROME2 and YBR_FULL_422, _map_color_mode fails with ValueError,
\* with no other error and without returning a mode.
C15_UnsupportedIsValueError ==
    (/\ pc = "mapped"
     /\ call.photometic_interpretation.k = "str"
     /\ call.photometic_interpretation.s \notin SupportedInterpretations)
        => ret = Raise("ValueError")

\* C16: a supported photometric interpretation maps to its layout (RGB to
\* RGB, MONOCHROME2 to L, YBR_FULL_422 to YCbCr), and retrieve_instance_frames
\* returns one image per part of the multipart response, in the order of
\* the parts, each of the layout of the metadata's interpretation, of size
\* (Columns, Rows) of the metadata, over the bytes of its part unchanged
\* (the bytes an image of that size takes; Image.frombytes reads no further).
C16_FrameParameters ==
    /\ (/\ pc = "mapped"
        /\ call.photometic_interpretation.k = "str"
        /\ call.photometic_interpretation.s \in SupportedInterpretations)
          => ret = Ok(LayoutOf(call.photometic_interpretation.s))
    /\ pc = "done"
          => /\ ret.status = "ok"
             /\ \A i \in 1..Len(ret.value) :
                   /\ ret.value[i].mode
                         = LayoutOf(MetadataValue(PhotometricInterpretationTag).s)
                   /\ ret.value[i].size
                         = <<MetadataValue(ColumnsTag), MetadataValue(RowsTag)>>
             /\ (call.kind = "complete" /\ DelimiterFree(call.data, "boundary"))
                => /\ Len(ret.value) = Len(call.data)
                   /\ \A i \in 1..Len(call.data) :
                         /\ ret.value[i].data
                               = Slice(call.data[i], 0, Len(ret.value[i].data))
                         /\ Len(ret.value[i].data)
                               = MetadataValue(ColumnsTag).n * MetadataValue(RowsTag).n
                                    * BytesPerPixel(ret.value[i].mode)

\* C16's case: MONOCHROME2 frames of 2 rows and 3 columns, two parts of six
\* bytes, came back as two L images of size (3, 2) in part order
C16_Witness ==
    /\ pc = "done"
    /\ call.metadata = Metadata(PyStr("MONOCHROME2"), 2, 3)
    /\ call.kind = "complete"
    /\ call.data = <<"abcdef", "ghijkl">>
    /\ ret = Ok(<<Image("L", <<PyInt(3), PyInt(2)>>, "abcdef"),
                  Image("L", <<PyInt(3), PyInt(2)>>, "ghijkl")>>)

\* a frames GET is among the requests issued
FramesRequested ==
    \E i \in 1..Len(call.requests) : call.requests[i].accept = OctetStreamAccept

\* one of the three UIDs of the call is None
SomeUidNull ==
    PyNone \in {call.study_instance_uid, call.series_instance_uid,
                call.sop_instance_uid}

\* the UIDs are there, the metadata GET was the first request and was
\* answered with 200, its JSON converted, and the interpretation of the
\* data set mapped to the mode
StepsSucceeded ==
    /\ ~SomeUidNull
    /\ call.requests[1].accept = JsonAccept
    /\ call.responses # <<>> /\ call.responses[1] = 200
    /\ \E order \in KeyOrders : load_json_dataset(call.metadata, order) = Ok(call.dataset)
    /\ GetAttr(call.dataset, PhotometricInterpretationTag).status = "ok"
    /\ map_color_mode(GetAttr(call.dataset, PhotometricInterpretationTag).value)
          = Ok(call.mode)

\* C19: in retrieve_instance_frames the frames GET is issued only after the
\* UIDs were found non-null, the metadata GET was answered successfully,
\* its JSON converted and the interpretation mapped; images are returned
\* only after the frames GET; with a null UID no request is ever issued;
\* and once a step has failed no request follows.
C19_RequestOrdering ==
    /\ [](call.op = "frames"
             => /\ FramesRequested => (Len(call.requests) = 2 /\ StepsSucceeded)
                /\ SomeUidNull => call.requests = <<>>
                /\ ret.status = "ok" => FramesRequested
                /\ pc = "failed" => ret.status = "raise")
    /\ [][pc = "failed" => (pc' = "failed" /\ call'.requests = call.requests)]_vars

\* C19's case: the frames GET went out second, after the metadata GET, and
\* the images came back
C19_Witness ==
    /\ pc = "done"
    /\ Len(call.requests) = 2
    /\ call.requests[1] = Request("http://h/studies/1.2/series/1.2/instances/1.2/metadata",
                                  JsonAccept)
    /\ call.requests[2].url = "http://h/studies/1.2/series/1.2/instances/1.2/frames/1,2"
    /\ ret.status = "ok"

====
